---- MODULE Spec2Model ----
(***************************************************************************)
(* The finalize path of the reconciliation runner                          *)
(* (src/runner/reconcile/finalize.rs): handle_finalize, get_finalize_result,*)
(* delete_children, remove_finalizer and get_index_of_parent_finalizer.     *)
(*                                                                         *)
(* One task runs handle_finalize for one parent.  Every .await of the code  *)
(* is a step of the task: each client call, the handler offload, the two    *)
(* delays and the channel send.  The cluster (store), the queue that holds  *)
(* the index keys and the handler are the task's environment.               *)
(***************************************************************************)
EXTENDS Integers, Sequences, FiniteSets, TLC

(***************************************************************************)
(* Bounds of the model.                                                    *)
(***************************************************************************)
MaxChildren == 3
MaxPasses == 2
MaxParChildren == 1
MaxFairChildren == 2

(***************************************************************************)
(* Program constants.                                                      *)
(***************************************************************************)
ErrorDelaySecs == 5
NotFinalizedDelaySecs == 3

(***************************************************************************)
(* Values.                                                                 *)
(***************************************************************************)
Parents == {"p1", "p2"}
\* The slot of each parent in the queue, and the mark of a slot nobody holds.
IndexKeyOf == [p \in Parents |-> IF p = "p1" THEN "k1" ELSE "k2"]
NoKey == "free"
OtherOperator == "other-op"
StatusDocs == {"s0", "s1"}

\* RuntimeConfig: operator_name, parent_type and the registry behind type_for.
RuntimeConfig ==
    [operator_name |-> "my-op",
     parent_type |-> "parent-type",
     types |-> {"registered"}]

ChildTypes == {"registered", "unregistered"}

\* Option<T>: None is the empty set, Some(x) the singleton.
None == {}
Some(x) == {x}
IsSome(o) == o /= {}
Unwrap(o) == CHOOSE x \in o : TRUE

\* The marker lists a parent may carry; None: no /metadata/finalizers field.
FinalizerLists ==
    {None,
     Some(<<>>),
     Some(<<OtherOperator>>),
     Some(<<OtherOperator, RuntimeConfig.operator_name>>),
     Some(<<RuntimeConfig.operator_name>>)}

VARIABLES
    store,      \* the cluster: per parent, the stored parent and its children
    task,       \* per parent, the handle_finalize task (its locals and position)
    log,        \* per parent, the calls the current pass has made, in order
    channel,    \* the ResourceMessages sent and not yet received
    held,       \* per parent, the index key the queue has handed to its task
    passes,     \* per parent, the number of passes started
    deletes     \* per parent and child, the delete requests the cluster accepted

vars == <<store, task, log, channel, held, passes, deletes>>

(***************************************************************************)
(* Pure helpers.                                                           *)
(***************************************************************************)

\* A position counted from 1, as a list's ordinal.
PositionOneBased(array, name) ==
    IF \E i \in 1..Len(array) : array[i] = name
    THEN Some(CHOOSE i \in 1..Len(array) :
                  /\ array[i] = name
                  /\ \A j \in 1..(i - 1) : array[j] /= name)
    ELSE None

\* Iterator::position: the 0-based index of the first match.
Position(array, name) ==
    IF \E i \in 1..Len(array) : array[i] = name
    THEN Some((CHOOSE i \in 1..Len(array) :
                  /\ array[i] = name
                  /\ \A j \in 1..(i - 1) : array[j] /= name) - 1)
    ELSE None

get_index_of_parent_finalizer(req, runtime_config) ==
    IF IsSome(req.parent.finalizers)
    THEN Position(Unwrap(req.parent.finalizers), runtime_config.operator_name)
    ELSE None

\* RuntimeConfig::type_for
type_for(runtime_config, child_type) ==
    IF child_type \in runtime_config.types THEN Some(child_type) ELSE None

RECURSIVE WithoutName(_, _)
WithoutName(list, name) ==
    IF list = <<>> THEN <<>>
    ELSE IF Head(list) = name THEN WithoutName(Tail(list), name)
    ELSE <<Head(list)>> \o WithoutName(Tail(list), name)

\* Patch::remove_finalizer: the parent's marker list without the given name.
PatchRemoveFinalizer(parent, name) ==
    [kind |-> "remove_finalizer",
     finalizers |-> IF IsSome(parent.finalizers)
                    THEN Some(WithoutName(Unwrap(parent.finalizers), name))
                    ELSE None]

\* The children of a stored parent as a SyncRequest lists them.
RECURSIVE KnownChildren(_, _)
KnownChildren(children, i) ==
    IF i > Len(children) THEN <<>>
    ELSE IF children[i].state = "gone" THEN KnownChildren(children, i + 1)
    ELSE <<[id |-> i,
            type |-> children[i].type,
            deletion_timestamp |-> (children[i].state = "deleting")]>>
         \o KnownChildren(children, i + 1)

\* SyncRequest: the snapshot of one parent and its children.
Snapshot(p) ==
    [parent |-> [id |-> p,
                 finalizers |-> store[p].finalizers,
                 generation |-> store[p].generation,
                 resource_version |-> store[p].resource_version,
                 status |-> store[p].status],
     children |-> KnownChildren(store[p].children, 1)]

NoResponse == [status |-> "s0", finalized |-> FALSE]

IdleTask(p) ==
    [pc |-> "idle",
     request |-> [parent |-> [id |-> p, finalizers |-> None, generation |-> 0,
                              resource_version |-> 0, status |-> "s0"],
                  children |-> <<>>],
     parent_index_key |-> NoKey,
     parent_id |-> p,
     parent_type |-> RuntimeConfig.parent_type,
     parent_finalizer_index |-> None,
     child |-> 1,
     response |-> NoResponse,
     result |-> "pending"]

(***************************************************************************)
(* Initial states.                                                         *)
(***************************************************************************)
ChildSeqs == UNION {[1..n -> [type : ChildTypes, state : {"live", "deleting"}]] :
                    n \in 0..MaxChildren}

\* A parent that is not being deleted: no finalize pass is started for it.
QuietParent ==
    [deletion_timestamp |-> FALSE, finalizers |-> None, generation |-> 1,
     resource_version |-> 1, status |-> "s0", children |-> <<>>]

\* A parent marked for deletion, as the cluster may hold it.
DeletingParents ==
    [deletion_timestamp : {TRUE},
     finalizers : FinalizerLists,
     generation : {1},
     resource_version : {1},
     status : {"s0"},
     children : ChildSeqs]

InitWith(deleting) ==
    /\ \E f \in [deleting -> DeletingParents] :
          store = [p \in Parents |-> IF p \in deleting THEN f[p] ELSE QuietParent]
    /\ task = [p \in Parents |-> IdleTask(p)]
    /\ log = [p \in Parents |-> <<>>]
    /\ channel = <<>>
    /\ held = [p \in Parents |-> NoKey]
    /\ passes = [p \in Parents |-> 0]
    /\ deletes = [p \in Parents |-> [i \in 1..Len(store[p].children) |-> 0]]

Init == InitWith({"p1"})

\* The children of the two-parent runs: to be deleted, being deleted already,
\* or of a type the registry lacks.
ParChildKinds ==
    {[type |-> "registered", state |-> "live"],
     [type |-> "registered", state |-> "deleting"],
     [type |-> "unregistered", state |-> "live"]}

\* Both parents are marked for deletion, each with few children, and each has
\* its last pass ahead of it.
ParParents ==
    [deletion_timestamp : {TRUE},
     finalizers : {Some(<<OtherOperator>>),
                   Some(<<OtherOperator, RuntimeConfig.operator_name>>)},
     generation : {1},
     resource_version : {1},
     status : {"s0"},
     children : UNION {[1..n -> ParChildKinds] : n \in 0..MaxParChildren}]

InitPar ==
    /\ store \in [Parents -> ParParents]
    /\ task = [p \in Parents |-> IdleTask(p)]
    /\ log = [p \in Parents |-> <<>>]
    /\ channel = <<>>
    /\ held = [p \in Parents |-> NoKey]
    /\ passes = [p \in Parents |-> MaxPasses - 1]
    /\ deletes = [p \in Parents |-> [i \in 1..Len(store[p].children) |-> 0]]

(***************************************************************************)
(* The queue around the task (the caller of handle_finalize).              *)
(***************************************************************************)

\* The queue hands the parent's index key to a new task with a fresh snapshot.
StartPass(p) ==
    /\ store[p].deletion_timestamp
    /\ held[p] = NoKey
    /\ passes[p] < MaxPasses
    /\ task' = [task EXCEPT ![p] = [IdleTask(p) EXCEPT
                                      !.pc = "start",
                                      !.request = Snapshot(p),
                                      !.parent_index_key = IndexKeyOf[p]]]
    /\ held' = [held EXCEPT ![p] = IndexKeyOf[p]]
    /\ passes' = [passes EXCEPT ![p] = @ + 1]
    /\ log' = [log EXCEPT ![p] = <<>>]
    /\ UNCHANGED <<store, channel, deletes>>

\* The dispatcher receives a completion event and releases its index key.
ReceiveCompletion ==
    /\ channel /= <<>>
    /\ held' = [q \in Parents |->
                  IF Some(held[q]) = Head(channel).index_key THEN NoKey ELSE held[q]]
    /\ channel' = Tail(channel)
    /\ UNCHANGED <<store, task, log, passes, deletes>>

\* Another writer updates the stored parent: its generation and its resource
\* version move on, and the snapshot of the pass in flight becomes stale.  (A
\* further update of a parent whose snapshot is stale already changes nothing
\* the pass can observe, and is left out.)
ExternalUpdate(p) ==
    /\ store[p].deletion_timestamp
    /\ store[p].resource_version = task[p].request.parent.resource_version
    /\ store' = [store EXCEPT ![p].generation = @ + 1,
                              ![p].resource_version = @ + 1]
    /\ UNCHANGED <<task, log, channel, held, passes, deletes>>

(***************************************************************************)
(* handle_finalize and get_finalize_result, one step per suspension point. *)
(***************************************************************************)

Goto(p, label) == [task EXCEPT ![p].pc = label]

Logged(p, event) == [log EXCEPT ![p] = Append(@, event)]

\* handle_finalize lines 24-29 and get_finalize_result line 51.
Begin(p) ==
    /\ task[p].pc = "start"
    /\ task' = [task EXCEPT
                  ![p].parent_id = task[p].request.parent.id,
                  ![p].parent_type = RuntimeConfig.parent_type,
                  ![p].parent_finalizer_index =
                      get_index_of_parent_finalizer(task[p].request, RuntimeConfig),
                  ![p].child = 1,
                  ![p].pc = "delete_children"]
    /\ UNCHANGED <<store, log, channel, held, passes, deletes>>

CurrentChild(p) == task[p].request.children[task[p].child]

InLoop(p) ==
    /\ task[p].pc = "delete_children"
    /\ task[p].child <= Len(task[p].request.children)

\* A loop without the deletion-timestamp guard: the child is deleted anyway.
SkipChildDeletesAnyway(p) ==
    /\ InLoop(p)
    /\ CurrentChild(p).deletion_timestamp
    /\ log' = Logged(p, [op |-> "delete_resource", child |-> CurrentChild(p).id,
                         ok |-> TRUE])
    /\ deletes' = [deletes EXCEPT ![p][CurrentChild(p).id] = @ + 1]
    /\ task' = [task EXCEPT ![p].child = @ + 1]
    /\ UNCHANGED <<store, channel, held, passes>>

\* A guard that holds in the first pass only: a retry sends its delete
\* requests again to the children that are already being deleted.
SkipChildResendsOnRetry(p) ==
    /\ InLoop(p)
    /\ CurrentChild(p).deletion_timestamp
    /\ IF passes[p] > 1 /\ IsSome(type_for(RuntimeConfig, CurrentChild(p).type))
       THEN /\ log' = [log EXCEPT ![p] = @ \o
                        <<[op |-> "type_for", child |-> CurrentChild(p).id,
                           found |-> TRUE],
                          [op |-> "delete_resource", child |-> CurrentChild(p).id,
                           ok |-> TRUE]>>]
            /\ deletes' = [deletes EXCEPT ![p][CurrentChild(p).id] = @ + 1]
       ELSE UNCHANGED <<log, deletes>>
    /\ task' = [task EXCEPT ![p].child = @ + 1]
    /\ UNCHANGED <<store, channel, held, passes>>

\* delete_children lines 100-101: the deletion timestamp is already set.
SkipChild(p) ==
    /\ InLoop(p)
    /\ CurrentChild(p).deletion_timestamp
    /\ task' = [task EXCEPT ![p].child = @ + 1]
    /\ UNCHANGED <<store, log, channel, held, passes, deletes>>

\* A lookup whose failure is returned as an error to the orchestrator.
MissingChildTypeReturnsErr(p) ==
    /\ InLoop(p)
    /\ ~CurrentChild(p).deletion_timestamp
    /\ type_for(RuntimeConfig, CurrentChild(p).type) = None
    /\ log' = Logged(p, [op |-> "type_for", child |-> CurrentChild(p).id,
                         found |-> FALSE])
    /\ task' = [task EXCEPT ![p].result = "Err", ![p].pc = "match"]
    /\ UNCHANGED <<store, channel, held, passes, deletes>>

\* delete_children line 103: type_for(..).expect(..) on an unregistered type.
MissingChildType(p) ==
    /\ InLoop(p)
    /\ ~CurrentChild(p).deletion_timestamp
    /\ type_for(RuntimeConfig, CurrentChild(p).type) = None
    /\ log' = Logged(p, [op |-> "type_for", child |-> CurrentChild(p).id,
                         found |-> FALSE])
    /\ task' = Goto(p, "panicked")
    /\ UNCHANGED <<store, channel, held, passes, deletes>>

\* What a successful delete leaves of child i in the cluster.
Deleted(p, i, left) ==
    [store EXCEPT ![p].children[i].state = left]

\* delete_children lines 103-105: the delete request succeeds.
DeleteChildOk(p, left) ==
    /\ InLoop(p)
    /\ ~CurrentChild(p).deletion_timestamp
    /\ IsSome(type_for(RuntimeConfig, CurrentChild(p).type))
    /\ log' = [log EXCEPT ![p] = @ \o
                 <<[op |-> "type_for", child |-> CurrentChild(p).id, found |-> TRUE],
                   [op |-> "delete_resource", child |-> CurrentChild(p).id,
                    ok |-> TRUE]>>]
    /\ store' = Deleted(p, CurrentChild(p).id, left)
    /\ deletes' = [deletes EXCEPT ![p][CurrentChild(p).id] = @ + 1]
    /\ task' = [task EXCEPT ![p].child = @ + 1]
    /\ UNCHANGED <<channel, held, passes>>

\* A loop that logs the failed delete and goes on to the next child.
DeleteChildErrContinues(p) ==
    /\ InLoop(p)
    /\ ~CurrentChild(p).deletion_timestamp
    /\ IsSome(type_for(RuntimeConfig, CurrentChild(p).type))
    /\ log' = [log EXCEPT ![p] = @ \o
                 <<[op |-> "type_for", child |-> CurrentChild(p).id, found |-> TRUE],
                   [op |-> "delete_resource", child |-> CurrentChild(p).id,
                    ok |-> FALSE]>>]
    /\ task' = [task EXCEPT ![p].child = @ + 1]
    /\ UNCHANGED <<store, channel, held, passes, deletes>>

\* A loop that answers a failed delete by asking once more for the same child.
DeleteChildErrRetries(p) ==
    /\ InLoop(p)
    /\ ~CurrentChild(p).deletion_timestamp
    /\ IsSome(type_for(RuntimeConfig, CurrentChild(p).type))
    /\ log' = [log EXCEPT ![p] = @ \o
                 <<[op |-> "type_for", child |-> CurrentChild(p).id, found |-> TRUE],
                   [op |-> "delete_resource", child |-> CurrentChild(p).id,
                    ok |-> FALSE]>>]
    /\ task' = IF Len(SelectSeq(log[p], LAMBDA e : e.op = "delete_resource"
                                          /\ e.child = CurrentChild(p).id)) = 0
               THEN task
               ELSE [task EXCEPT ![p].result = "Err", ![p].pc = "match"]
    /\ UNCHANGED <<store, channel, held, passes, deletes>>

\* delete_children line 104: the delete request fails and `?` returns the error.
DeleteChildErr(p) ==
    /\ InLoop(p)
    /\ ~CurrentChild(p).deletion_timestamp
    /\ IsSome(type_for(RuntimeConfig, CurrentChild(p).type))
    /\ log' = [log EXCEPT ![p] = @ \o
                 <<[op |-> "type_for", child |-> CurrentChild(p).id, found |-> TRUE],
                   [op |-> "delete_resource", child |-> CurrentChild(p).id,
                    ok |-> FALSE]>>]
    /\ task' = [task EXCEPT ![p].result = "Err", ![p].pc = "match"]
    /\ UNCHANGED <<store, channel, held, passes, deletes>>

\* A teardown that is not awaited to its end: the handler may be reached while
\* children are still to be visited.
ChildrenDeletedEarly(p) ==
    /\ task[p].pc = "delete_children"
    /\ task' = IF IsSome(task[p].parent_finalizer_index)
               THEN Goto(p, "finalize")
               ELSE [task EXCEPT ![p].result = "Ok", ![p].pc = "match"]
    /\ UNCHANGED <<store, log, channel, held, passes, deletes>>

\* A pass without the test of line 55: the handler runs whatever the marker list.
ChildrenDeletedIgnoresMarker(p) ==
    /\ task[p].pc = "delete_children"
    /\ task[p].child > Len(task[p].request.children)
    /\ task' = Goto(p, "finalize")
    /\ UNCHANGED <<store, log, channel, held, passes, deletes>>

\* delete_children line 108 and get_finalize_result lines 55, 83.
ChildrenDeleted(p) ==
    /\ task[p].pc = "delete_children"
    /\ task[p].child > Len(task[p].request.children)
    /\ task' = IF IsSome(task[p].parent_finalizer_index)
               THEN Goto(p, "finalize")
               ELSE [task EXCEPT ![p].result = "Ok", ![p].pc = "match"]
    /\ UNCHANGED <<store, log, channel, held, passes, deletes>>

\* A handler called in line on the scheduler's thread: while one handler runs,
\* no other task's handler can.
InvokeHandlerInline(p, status, finalized) ==
    /\ task[p].pc = "finalize"
    /\ \A q \in Parents \ {p} : task[q].pc /= "finalize"
    /\ task' = [task EXCEPT
                  ![p].response = [status |-> status, finalized |-> finalized],
                  ![p].pc = "update_status"]
    /\ log' = Logged(p, [op |-> "finalize", request |-> task[p].request,
                         status |-> status, finalized |-> finalized])
    /\ UNCHANGED <<store, channel, held, passes, deletes>>

\* get_finalize_result lines 56-63: the handler runs on the blocking pool and
\* hands the request back with its response.
InvokeHandler(p, status, finalized) ==
    /\ task[p].pc = "finalize"
    /\ task' = [task EXCEPT
                  ![p].response = [status |-> status, finalized |-> finalized],
                  ![p].pc = "update_status"]
    /\ log' = Logged(p, [op |-> "finalize", request |-> task[p].request,
                         status |-> status, finalized |-> finalized])
    /\ UNCHANGED <<store, channel, held, passes, deletes>>

\* update_status_if_different: whether a status patch is called for.
StatusDiffers(old_status, new_status) == new_status /= old_status

\* A status call that reads the stored parent again for its generation and
\* resource version.
StatusCallRefetched(p) ==
    [op |-> "update_status_if_different",
     parent_id |-> task[p].request.parent.id,
     resource_version |-> store[p].resource_version,
     generation |-> store[p].generation,
     old_status |-> task[p].request.parent.status,
     new_status |-> task[p].response.status]

\* The arguments of line 71, taken from the request the handler handed back.
StatusCall(p) ==
    [op |-> "update_status_if_different",
     parent_id |-> task[p].request.parent.id,
     resource_version |-> task[p].request.parent.resource_version,
     generation |-> task[p].request.parent.generation,
     old_status |-> task[p].request.parent.status,
     new_status |-> task[p].response.status]

\* get_finalize_result lines 73-79: what follows a status reconciliation.
AfterStatus(p) ==
    IF task[p].response.finalized THEN "remove_finalizer" ELSE "delay_not_finalized"

\* Line 71: the status is as it was, nothing is sent.
StatusUnchanged(p) ==
    /\ task[p].pc = "update_status"
    /\ ~StatusDiffers(StatusCall(p).old_status, StatusCall(p).new_status)
    /\ log' = Logged(p, StatusCall(p))
    /\ task' = Goto(p, AfterStatus(p))
    /\ UNCHANGED <<store, channel, held, passes, deletes>>

\* Line 71: the status patch is applied under the snapshot's resource version.
StatusPatchOk(p) ==
    /\ task[p].pc = "update_status"
    /\ StatusDiffers(StatusCall(p).old_status, StatusCall(p).new_status)
    /\ StatusCall(p).resource_version = store[p].resource_version
    /\ log' = [log EXCEPT ![p] = @ \o
                 <<StatusCall(p),
                   [op |-> "patch_resource", kind |-> "status",
                    parent_id |-> StatusCall(p).parent_id,
                    status |-> StatusCall(p).new_status, ok |-> TRUE]>>]
    /\ store' = [store EXCEPT ![p].status = StatusCall(p).new_status,
                              ![p].resource_version = @ + 1]
    /\ task' = Goto(p, AfterStatus(p))
    /\ UNCHANGED <<channel, held, passes, deletes>>

\* A status failure that is logged and passed over: the pass goes on to the
\* removal or the deferral as if the patch had succeeded.
StatusPatchErrContinues(p) ==
    /\ task[p].pc = "update_status"
    /\ StatusDiffers(StatusCall(p).old_status, StatusCall(p).new_status)
    /\ log' = [log EXCEPT ![p] = @ \o
                 <<StatusCall(p),
                   [op |-> "patch_resource", kind |-> "status",
                    parent_id |-> StatusCall(p).parent_id,
                    status |-> StatusCall(p).new_status, ok |-> FALSE]>>]
    /\ task' = Goto(p, AfterStatus(p))
    /\ UNCHANGED <<store, channel, held, passes, deletes>>

\* Line 71: the status patch fails (conflict or transport) and `?` returns.
StatusPatchErr(p) ==
    /\ task[p].pc = "update_status"
    /\ StatusDiffers(StatusCall(p).old_status, StatusCall(p).new_status)
    /\ log' = [log EXCEPT ![p] = @ \o
                 <<StatusCall(p),
                   [op |-> "patch_resource", kind |-> "status",
                    parent_id |-> StatusCall(p).parent_id,
                    status |-> StatusCall(p).new_status, ok |-> FALSE]>>]
    /\ task' = [task EXCEPT ![p].result = "Err", ![p].pc = "match"]
    /\ UNCHANGED <<store, channel, held, passes, deletes>>

\* A removal built with the parent type in place of the operator name.
RemovalPatchOfParentType(p, ok) ==
    [op |-> "patch_resource",
     kind |-> "remove_finalizer",
     parent_id |-> task[p].request.parent.id,
     finalizers |-> PatchRemoveFinalizer(task[p].request.parent,
                                         RuntimeConfig.parent_type).finalizers,
     ok |-> ok]

\* remove_finalizer lines 87-90: the patch the task sends.
RemovalPatch(p, ok) ==
    [op |-> "patch_resource",
     kind |-> "remove_finalizer",
     parent_id |-> task[p].request.parent.id,
     finalizers |-> PatchRemoveFinalizer(task[p].request.parent,
                                         RuntimeConfig.operator_name).finalizers,
     ok |-> ok]

\* Line 75 and remove_finalizer: the marker-removal patch succeeds.
RemoveFinalizerOk(p) ==
    /\ task[p].pc = "remove_finalizer"
    /\ log' = Logged(p, RemovalPatch(p, TRUE))
    /\ store' = [store EXCEPT ![p].finalizers = RemovalPatch(p, TRUE).finalizers,
                              ![p].resource_version = @ + 1]
    /\ task' = [task EXCEPT ![p].result = "Ok", ![p].pc = "match"]
    /\ UNCHANGED <<channel, held, passes, deletes>>

\* A removal whose failure is logged and dropped: the pass ends as a success.
RemoveFinalizerErrSwallowed(p) ==
    /\ task[p].pc = "remove_finalizer"
    /\ log' = Logged(p, RemovalPatch(p, FALSE))
    /\ task' = [task EXCEPT ![p].result = "Ok", ![p].pc = "match"]
    /\ UNCHANGED <<store, channel, held, passes, deletes>>

\* Line 75 and remove_finalizer line 90: the patch fails and `?` returns.
RemoveFinalizerErr(p) ==
    /\ task[p].pc = "remove_finalizer"
    /\ log' = Logged(p, RemovalPatch(p, FALSE))
    /\ task' = [task EXCEPT ![p].result = "Err", ![p].pc = "match"]
    /\ UNCHANGED <<store, channel, held, passes, deletes>>

\* A deferred pass that awaits the error interval instead of its own.
DelayNotFinalizedErrorSecs(p) ==
    /\ task[p].pc = "delay_not_finalized"
    /\ log' = Logged(p, [op |-> "delay_for", secs |-> ErrorDelaySecs])
    /\ task' = [task EXCEPT ![p].result = "Ok", ![p].pc = "match"]
    /\ UNCHANGED <<store, channel, held, passes, deletes>>

\* A deferred pass that returns after its delay without reaching the send.
DelayNotFinalizedReturns(p) ==
    /\ task[p].pc = "delay_not_finalized"
    /\ log' = Logged(p, [op |-> "delay_for", secs |-> NotFinalizedDelaySecs])
    /\ task' = [task EXCEPT ![p].result = "Ok", ![p].pc = "done"]
    /\ UNCHANGED <<store, channel, held, passes, deletes>>

\* Line 78: the not-finalized delay elapses; line 83 returns Ok.
DelayNotFinalized(p) ==
    /\ task[p].pc = "delay_not_finalized"
    /\ log' = Logged(p, [op |-> "delay_for", secs |-> NotFinalizedDelaySecs])
    /\ task' = [task EXCEPT ![p].result = "Ok", ![p].pc = "match"]
    /\ UNCHANGED <<store, channel, held, passes, deletes>>

\* A match whose error arm returns instead of falling through to the send.
MatchResultReturnsOnErr(p) ==
    /\ task[p].pc = "match"
    /\ task' = Goto(p, IF task[p].result = "Ok" THEN "send" ELSE "done")
    /\ UNCHANGED <<store, log, channel, held, passes, deletes>>

\* A match whose error arm unwraps the result: the error aborts the task.
MatchResultUnwraps(p) ==
    /\ task[p].pc = "match"
    /\ task' = Goto(p, IF task[p].result = "Ok" THEN "send" ELSE "panicked")
    /\ UNCHANGED <<store, log, channel, held, passes, deletes>>

\* A match that awaits the error delay in both arms.
MatchResultAlwaysDelays(p) ==
    /\ task[p].pc = "match"
    /\ task' = Goto(p, "delay_error")
    /\ UNCHANGED <<store, log, channel, held, passes, deletes>>

\* A match whose error arm sends the completion event before its delay.
MatchResultSendsFirst(p) ==
    /\ task[p].pc = "match"
    /\ IF task[p].result = "Ok"
       THEN /\ task' = Goto(p, "send")
            /\ UNCHANGED <<log, channel>>
       ELSE /\ task' = Goto(p, "delay_error")
            /\ channel' = Append(channel,
                   [event_type |-> "UpdateOperationComplete",
                    resource_type |-> task[p].parent_type,
                    resource_id |-> task[p].parent_id,
                    index_key |-> Some(task[p].parent_index_key)])
            /\ UNCHANGED log
    /\ UNCHANGED <<store, held, passes, deletes>>

\* handle_finalize lines 30-39: the match on the result.
MatchResult(p) ==
    /\ task[p].pc = "match"
    /\ task' = Goto(p, IF task[p].result = "Ok" THEN "send" ELSE "delay_error")
    /\ UNCHANGED <<store, log, channel, held, passes, deletes>>

\* Line 37: the error delay elapses.
DelayError(p) ==
    /\ task[p].pc = "delay_error"
    /\ log' = Logged(p, [op |-> "delay_for", secs |-> ErrorDelaySecs])
    /\ task' = Goto(p, "send")
    /\ UNCHANGED <<store, channel, held, passes, deletes>>

\* A completion event built without the index key.
ResourceMessageWithoutKey(p) ==
    [event_type |-> "UpdateOperationComplete",
     resource_type |-> task[p].parent_type,
     resource_id |-> task[p].parent_id,
     index_key |-> None]

\* Lines 40-45: the completion event.
ResourceMessage(p) ==
    [event_type |-> "UpdateOperationComplete",
     resource_type |-> task[p].parent_type,
     resource_id |-> task[p].parent_id,
     index_key |-> Some(task[p].parent_index_key)]

\* Line 46: the event is sent and the task ends.
SendCompletion(p) ==
    /\ task[p].pc = "send"
    /\ channel' = Append(channel, ResourceMessage(p))
    /\ log' = Logged(p, [op |-> "send", message |-> ResourceMessage(p)])
    /\ task' = Goto(p, "done")
    /\ UNCHANGED <<store, held, passes, deletes>>

\* One step of the task of parent p.
TaskStep(p) ==
    \/ Begin(p)
    \/ SkipChild(p)
    \/ MissingChildType(p)
    \/ \E left \in {"deleting", "gone"} : DeleteChildOk(p, left)
    \/ DeleteChildErr(p)
    \/ ChildrenDeleted(p)
    \/ \E status \in StatusDocs, finalized \in BOOLEAN :
          InvokeHandler(p, status, finalized)
    \/ StatusUnchanged(p)
    \/ StatusPatchOk(p)
    \/ StatusPatchErr(p)
    \/ RemoveFinalizerOk(p)
    \/ RemoveFinalizerErr(p)
    \/ DelayNotFinalized(p)
    \/ MatchResult(p)
    \/ DelayError(p)
    \/ SendCompletion(p)

Next ==
    \/ \E p \in Parents : StartPass(p)
    \/ ReceiveCompletion
    \/ \E p \in Parents : TaskStep(p)

Spec == Init /\ [][Next]_vars

\* The initial states of the specifications with fairness: those of Init
\* whose parents have few children.
InitFair ==
    /\ Init
    /\ \A p \in Parents : Len(store[p].children) <= MaxFairChildren

\* Every call returns, the handler returns and the delays elapse: a task that
\* can take a step eventually takes one.
FairSpec ==
    /\ InitFair
    /\ [][Next]_vars
    /\ \A p \in Parents : WF_vars(TaskStep(p))

\* The passes in a cluster where other writers update the parent meanwhile.
NextWithWriter ==
    \/ Next
    \/ \E p \in Parents : ExternalUpdate(p)

WriterSpec == Init /\ [][NextWithWriter]_vars

\* The passes of two parents, run concurrently.
SpecPar == InitPar /\ [][Next]_vars

\* The last pass the queue starts for p is under way: from here on every
\* client call succeeds and the handler answers finalized = true.
Settled(p) == passes[p] = MaxPasses

\* One step of the task of parent p, where calls fail and the handler defers
\* only as long as the passes of p have not settled.
ConvergeStep(p) ==
    \/ Begin(p)
    \/ SkipChild(p)
    \/ MissingChildType(p)
    \/ \E left \in {"deleting", "gone"} : DeleteChildOk(p, left)
    \/ ChildrenDeleted(p)
    \/ \E status \in StatusDocs : InvokeHandler(p, status, TRUE)
    \/ StatusUnchanged(p)
    \/ StatusPatchOk(p)
    \/ RemoveFinalizerOk(p)
    \/ DelayNotFinalized(p)
    \/ MatchResult(p)
    \/ DelayError(p)
    \/ SendCompletion(p)
    \/ ~Settled(p) /\ DeleteChildErr(p)
    \/ ~Settled(p) /\ \E status \in StatusDocs : InvokeHandler(p, status, FALSE)
    \/ ~Settled(p) /\ StatusPatchErr(p)
    \/ ~Settled(p) /\ RemoveFinalizerErr(p)

ConvergeNext ==
    \/ \E p \in Parents : StartPass(p)
    \/ ReceiveCompletion
    \/ \E p \in Parents : ConvergeStep(p)

\* The queue requeues the parent after every completion event, the dispatcher
\* receives every event, every call returns and every delay elapses.
ConvergeSpec ==
    /\ InitFair
    /\ [][ConvergeNext]_vars
    /\ \A p \in Parents : WF_vars(ConvergeStep(p)) /\ WF_vars(StartPass(p))
    /\ WF_vars(ReceiveCompletion)

(***************************************************************************)
(* What a pass has done, read off its log.                                 *)
(***************************************************************************)
Events(p, name) == SelectSeq(log[p], LAMBDA e : e.op = name)

Patches(p, kind) ==
    SelectSeq(log[p], LAMBDA e : e.op = "patch_resource" /\ e.kind = kind)

Delays(p, secs) ==
    SelectSeq(log[p], LAMBDA e : e.op = "delay_for" /\ e.secs = secs)

Started(p) == task[p].pc /= "idle"

CompletionSent(p) == Len(Events(p, "send")) = 1

\* The task has ended or died: it has no further step.
Stopped(p) == Started(p) /\ ~ENABLED TaskStep(p)

\* The child the deletion loop stands at has no deletion timestamp and a type
\* the registry lacks, and the task died there.
AbortedOnMissingType(p) ==
    /\ task[p].pc = "panicked"
    /\ task[p].child <= Len(task[p].request.children)
    /\ ~CurrentChild(p).deletion_timestamp
    /\ CurrentChild(p).type \notin RuntimeConfig.types
    /\ task[p].result = "pending"

\* The operator's marker is in the marker list of the pass's snapshot.
MarkerInSnapshot(p) ==
    /\ task[p].request.parent.finalizers /= None
    /\ \E i \in 1..Len(Unwrap(task[p].request.parent.finalizers)) :
          Unwrap(task[p].request.parent.finalizers)[i] = RuntimeConfig.operator_name

(***************************************************************************)
(* C1                                                                      *)
(***************************************************************************)

\* C1 as stated: every pass that has ended, whatever its outcome, has sent
\* exactly one completion event.
C1_EveryEndedPassSentOne ==
    \A p \in Parents :
        task[p].pc \in {"done", "panicked"} => Len(Events(p, "send")) = 1

\* C1, amended: no pass sends more than one completion event, and every pass
\* that has ended otherwise than by the abort on a child type missing from the
\* registry has sent exactly one; a pass that aborted there has sent none.
C1_OneCompletionUnlessAborted ==
    \A p \in Parents :
        /\ Len(Events(p, "send")) <= 1
        /\ task[p].pc \in {"done", "panicked"} =>
              IF AbortedOnMissingType(p)
              THEN Len(Events(p, "send")) = 0
              ELSE Len(Events(p, "send")) = 1

\* C1 witness: a pass whose status patch failed has ended with its one event.
C1_Witness ==
    \E p \in Parents :
        /\ task[p].pc = "done"
        /\ task[p].result = "Err"
        /\ Len(Patches(p, "status")) = 1
        /\ Len(Events(p, "send")) = 1

(***************************************************************************)
(* C2                                                                      *)
(***************************************************************************)

\* C2 as stated: in no reachable state has a started pass stopped without
\* having sent its completion event.
C2_NeverStoppedUnsent ==
    \A p \in Parents : Stopped(p) => CompletionSent(p)

\* C2, amended: when every call returns, the handler returns and the delays
\* elapse, a started pass eventually sends its completion event, unless it
\* aborts on a child type missing from the registry.
C2_StartedLeadsToCompletion ==
    \A p \in Parents :
        Started(p) ~> (CompletionSent(p) \/ AbortedOnMissingType(p))

\* C2 witness: a pass that went through the handler and a failed marker
\* removal has sent its completion event and stopped.
C2_Witness ==
    \E p \in Parents :
        /\ Stopped(p)
        /\ CompletionSent(p)
        /\ Len(Events(p, "finalize")) = 1
        /\ Len(Patches(p, "remove_finalizer")) = 1
        /\ task[p].result = "Err"

(***************************************************************************)
(* C3                                                                      *)
(***************************************************************************)

\* The place of a logged call in the sequence teardown, handler, status
\* reconciliation, marker removal, completion; 0 for the delays.
StepRank(e) ==
    IF e.op \in {"type_for", "delete_resource"} THEN 1
    ELSE IF e.op = "finalize" THEN 2
    ELSE IF e.op = "update_status_if_different" THEN 3
    ELSE IF e.op = "patch_resource" THEN (IF e.kind = "status" THEN 3 ELSE 4)
    ELSE IF e.op = "send" THEN 5
    ELSE 0

\* The ids of the snapshot's children that carry no deletion timestamp, in order.
RECURSIVE LiveIds(_)
LiveIds(children) ==
    IF children = <<>> THEN <<>>
    ELSE IF Head(children).deletion_timestamp THEN LiveIds(Tail(children))
    ELSE <<Head(children).id>> \o LiveIds(Tail(children))

\* The ids of the children a delete request was issued for, in order.
RECURSIVE DeleteIds(_)
DeleteIds(events) ==
    IF events = <<>> THEN <<>>
    ELSE IF Head(events).op = "delete_resource"
         THEN <<Head(events).child>> \o DeleteIds(Tail(events))
         ELSE DeleteIds(Tail(events))

IsPrefix(a, b) == Len(a) <= Len(b) /\ a = SubSeq(b, 1, Len(a))

\* C3: the calls of a pass are logged in the order teardown, handler, status
\* reconciliation, marker removal, completion: no call precedes one of an
\* earlier step; the handler is invoked only when every child without a
\* deletion timestamp has had its delete request answered; the status
\* reconciliation is called only after the handler returned, the marker-removal
\* patch only after the status reconciliation, and the completion event is the
\* last thing the pass does.
C3_StepsInOrder ==
    \A p \in Parents :
        /\ \A i, j \in 1..Len(log[p]) :
              (i < j /\ StepRank(log[p][i]) > 0 /\ StepRank(log[p][j]) > 0)
                  => StepRank(log[p][i]) <= StepRank(log[p][j])
        /\ \A j \in 1..Len(log[p]) :
              /\ log[p][j].op = "finalize" =>
                    DeleteIds(SubSeq(log[p], 1, j - 1))
                        = LiveIds(task[p].request.children)
              /\ log[p][j].op = "update_status_if_different" =>
                    \E i \in 1..(j - 1) : log[p][i].op = "finalize"
              /\ (log[p][j].op = "patch_resource"
                   /\ log[p][j].kind = "remove_finalizer") =>
                    \E i \in 1..(j - 1) : log[p][i].op = "update_status_if_different"
              /\ log[p][j].op = "send" => j = Len(log[p])

\* C3 witness: a finished pass that deleted two children, ran the handler,
\* patched the status and removed the marker.
C3_Witness ==
    \E p \in Parents :
        /\ task[p].pc = "done"
        /\ Len(Events(p, "delete_resource")) = 2
        /\ Len(Events(p, "finalize")) = 1
        /\ Len(Patches(p, "status")) = 1
        /\ Len(Patches(p, "remove_finalizer")) = 1
        /\ Len(Events(p, "send")) = 1

(***************************************************************************)
(* C4                                                                      *)
(***************************************************************************)

\* The child of the pass's snapshot with the given id.
ChildById(p, id) ==
    CHOOSE c \in {task[p].request.children[i] :
                    i \in 1..Len(task[p].request.children)} : c.id = id

\* The deletion loop has returned Ok.
TeardownSucceeded(p) ==
    /\ task[p].pc \notin {"idle", "start", "delete_children", "panicked"}
    /\ \A i \in 1..Len(log[p]) :
          log[p][i].op = "delete_resource" => log[p][i].ok

\* C4: no delete request and no registry lookup is made for a child whose
\* deletion timestamp is set; when every child carries one, the pass makes no
\* delete call and its teardown neither aborts nor fails; when the teardown
\* succeeds, exactly one delete request was issued for each child without a
\* deletion timestamp, in iteration order.
C4_NoDeleteOfDeletingChild ==
    \A p \in Parents :
        /\ \A i \in 1..Len(log[p]) :
              log[p][i].op \in {"type_for", "delete_resource"} =>
                  ~ChildById(p, log[p][i].child).deletion_timestamp
        /\ (Started(p) /\ LiveIds(task[p].request.children) = <<>>) =>
              /\ Events(p, "delete_resource") = <<>>
              /\ task[p].pc /= "panicked"
              /\ task[p].pc \notin {"start", "delete_children"} => TeardownSucceeded(p)
        /\ TeardownSucceeded(p) =>
              DeleteIds(log[p]) = LiveIds(task[p].request.children)

\* C4 witness: a finished pass over three children, the first already being
\* deleted and of an unregistered type, that issued exactly the two other deletes.
C4_Witness ==
    \E p \in Parents :
        /\ task[p].pc = "done"
        /\ Len(task[p].request.children) = 3
        /\ task[p].request.children[1].deletion_timestamp
        /\ task[p].request.children[1].type \notin RuntimeConfig.types
        /\ DeleteIds(log[p]) = <<2, 3>>
        /\ TeardownSucceeded(p)

\* C4 second witness: every child carries a deletion timestamp and the pass
\* finished without a delete call.
C4_WitnessAllDeleting ==
    \E p \in Parents :
        /\ task[p].pc = "done"
        /\ Len(task[p].request.children) = 2
        /\ LiveIds(task[p].request.children) = <<>>
        /\ Events(p, "delete_resource") = <<>>

(***************************************************************************)
(* C5                                                                      *)
(***************************************************************************)

\* The delete requests of the pass follow the children without a deletion
\* timestamp in order, stop at the first failure, and cover them all when
\* none failed.
TeardownAsSpecified(p) ==
    /\ IsPrefix(DeleteIds(log[p]), LiveIds(task[p].request.children))
    /\ \A i \in 1..(Len(Events(p, "delete_resource")) - 1) :
          Events(p, "delete_resource")[i].ok
    /\ TeardownSucceeded(p) =>
          DeleteIds(log[p]) = LiveIds(task[p].request.children)

\* C5: when the operator's marker is not in the marker list of the snapshot,
\* the pass never invokes the handler, never calls the status reconciliation
\* and sends no patch, and its child teardown is as specified all the same.
C5_MarkerAbsentSkipsHandler ==
    \A p \in Parents :
        (Started(p) /\ ~MarkerInSnapshot(p)) =>
            /\ Events(p, "finalize") = <<>>
            /\ Events(p, "update_status_if_different") = <<>>
            /\ Events(p, "patch_resource") = <<>>
            /\ TeardownAsSpecified(p)
            /\ task[p].pc = "done" =>
                  \/ TeardownSucceeded(p)
                  \/ /\ Len(Events(p, "delete_resource")) >= 1
                     /\ task[p].result = "Err"

\* C5 witness: a finished pass whose snapshot carries another operator's
\* marker only, and which deleted both children of the parent.
C5_Witness ==
    \E p \in Parents :
        /\ task[p].pc = "done"
        /\ task[p].request.parent.finalizers = Some(<<OtherOperator>>)
        /\ DeleteIds(log[p]) = <<1, 2>>
        /\ TeardownSucceeded(p)
        /\ Events(p, "finalize") = <<>>

(***************************************************************************)
(* C6                                                                      *)
(***************************************************************************)

\* C6: once a delete request has failed, the pass makes no further lookup or
\* delete request, invokes no handler and sends no patch: all it still does is
\* await the error delay and then send the completion event.
C6_DeleteFailureIsFailFast ==
    \A p \in Parents :
        \A i \in 1..Len(log[p]) :
            (log[p][i].op = "delete_resource" /\ ~log[p][i].ok) =>
                /\ IsPrefix(SubSeq(log[p], i + 1, Len(log[p])),
                            <<[op |-> "delay_for", secs |-> ErrorDelaySecs],
                              [op |-> "send", message |-> ResourceMessage(p)]>>)
                /\ task[p].pc = "done" => Len(log[p]) = i + 2
                /\ Events(p, "finalize") = <<>>
                /\ Events(p, "patch_resource") = <<>>
                /\ Delays(p, NotFinalizedDelaySecs) = <<>>

\* C6 witness: of three children to delete the second one's request failed;
\* the third was never attempted and the pass finished after the error delay.
C6_Witness ==
    \E p \in Parents :
        /\ task[p].pc = "done"
        /\ LiveIds(task[p].request.children) = <<1, 2, 3>>
        /\ MarkerInSnapshot(p)
        /\ DeleteIds(log[p]) = <<1, 2>>
        /\ Events(p, "delete_resource")[1].ok
        /\ ~Events(p, "delete_resource")[2].ok
        /\ Len(Delays(p, ErrorDelaySecs)) = 1
        /\ Events(p, "finalize") = <<>>

(***************************************************************************)
(* C7                                                                      *)
(***************************************************************************)

\* The handler of the pass has returned with the given verdict.
HandlerReturned(p, finalized) ==
    /\ Len(Events(p, "finalize")) = 1
    /\ Events(p, "finalize")[1].finalized = finalized

\* The status reconciliation of the pass has returned an error.
StatusFailed(p) ==
    \E i \in 1..Len(log[p]) :
        /\ log[p][i].op = "patch_resource"
        /\ log[p][i].kind = "status"
        /\ ~log[p][i].ok

\* The marker list of the snapshot without the operator's own name.
OthersKept(p) ==
    IF task[p].request.parent.finalizers = None THEN None
    ELSE Some(SelectSeq(Unwrap(task[p].request.parent.finalizers),
                        LAMBDA name : name /= RuntimeConfig.operator_name))

\* Every marker-removal patch of the pass takes the operator's name, and
\* nothing else, off the marker list of the snapshot.
RemovesOwnMarkerOnly(p) ==
    \A i \in 1..Len(Patches(p, "remove_finalizer")) :
        /\ Patches(p, "remove_finalizer")[i].finalizers = OthersKept(p)
        /\ Patches(p, "remove_finalizer")[i].parent_id = p

\* Once the status reconciliation has been called, a status patch has been
\* issued if and only if the handler's status differs from the snapshot's.
StatusPatchedIffDifferent(p) ==
    Len(Events(p, "update_status_if_different")) = 1 =>
        Len(Patches(p, "status")) =
            (IF Events(p, "finalize")[1].status /= task[p].request.parent.status
             THEN 1 ELSE 0)

\* C7 as stated: every finished pass whose handler returned finalized = true
\* issued exactly one marker-removal patch, removing the operator's name only,
\* and a status patch if and only if the status differs.
C7_FinalizedAlwaysRemovesMarker ==
    \A p \in Parents :
        (task[p].pc = "done" /\ HandlerReturned(p, TRUE)) =>
            /\ Len(Patches(p, "remove_finalizer")) = 1
            /\ RemovesOwnMarkerOnly(p)
            /\ StatusPatchedIffDifferent(p)

\* C7, amended: in a pass whose handler returned finalized = true, a status
\* patch is issued if and only if the status differs; when the status
\* reconciliation does not fail, exactly one marker-removal patch is issued,
\* removing the operator's name only; when it fails, none is issued.
C7_FinalizedRemovesMarkerUnlessStatusFails ==
    \A p \in Parents :
        HandlerReturned(p, TRUE) =>
            /\ Len(Patches(p, "remove_finalizer")) <= 1
            /\ RemovesOwnMarkerOnly(p)
            /\ StatusPatchedIffDifferent(p)
            /\ StatusFailed(p) => Patches(p, "remove_finalizer") = <<>>
            /\ (task[p].pc = "done" /\ ~StatusFailed(p)) =>
                  Len(Patches(p, "remove_finalizer")) = 1

\* C7 witness: a finished pass over the marker list [other-op, my-op] whose
\* handler returned finalized = true with a new status: one status patch and
\* one removal patch that leaves [other-op].
C7_Witness ==
    \E p \in Parents :
        /\ task[p].pc = "done"
        /\ HandlerReturned(p, TRUE)
        /\ task[p].request.parent.finalizers
               = Some(<<OtherOperator, RuntimeConfig.operator_name>>)
        /\ Len(Patches(p, "status")) = 1
        /\ Len(Patches(p, "remove_finalizer")) = 1
        /\ Patches(p, "remove_finalizer")[1].finalizers = Some(<<OtherOperator>>)

(***************************************************************************)
(* C8                                                                      *)
(***************************************************************************)

\* C8 as stated: every finished pass whose handler returned finalized = false
\* issued no marker-removal patch, awaited the 3 s delay and not the 5 s one,
\* and was not an error.
C8_NotFinalizedAlwaysDefers ==
    \A p \in Parents :
        (task[p].pc = "done" /\ HandlerReturned(p, FALSE)) =>
            /\ Patches(p, "remove_finalizer") = <<>>
            /\ Len(Delays(p, NotFinalizedDelaySecs)) = 1
            /\ Delays(p, ErrorDelaySecs) = <<>>
            /\ task[p].result = "Ok"

\* C8, amended: a pass whose handler returned finalized = false issues no
\* marker-removal patch; when its status reconciliation does not fail, it
\* awaits the 3 s delay once, before the completion event, awaits no 5 s delay
\* and is not an error; when the status reconciliation fails it is an error
\* pass, with the 5 s delay and without the 3 s one.
C8_NotFinalizedDefersUnlessStatusFails ==
    \A p \in Parents :
        HandlerReturned(p, FALSE) =>
            /\ Patches(p, "remove_finalizer") = <<>>
            /\ task[p].pc = "done" =>
                  IF StatusFailed(p)
                  THEN /\ Delays(p, NotFinalizedDelaySecs) = <<>>
                       /\ Len(Delays(p, ErrorDelaySecs)) = 1
                       /\ task[p].result = "Err"
                  ELSE /\ Len(Delays(p, NotFinalizedDelaySecs)) = 1
                       /\ Delays(p, ErrorDelaySecs) = <<>>
                       /\ task[p].result = "Ok"
                       /\ log[p][Len(log[p]) - 1]
                              = [op |-> "delay_for", secs |-> NotFinalizedDelaySecs]
                       /\ log[p][Len(log[p])].op = "send"

\* C8 witness: a finished pass whose handler returned finalized = false and
\* whose status patch succeeded, with its one 3 s delay.
C8_Witness ==
    \E p \in Parents :
        /\ task[p].pc = "done"
        /\ HandlerReturned(p, FALSE)
        /\ Len(Patches(p, "status")) = 1
        /\ ~StatusFailed(p)
        /\ Len(Delays(p, NotFinalizedDelaySecs)) = 1

(***************************************************************************)
(* C9                                                                      *)
(***************************************************************************)

\* The completion event of a pass for parent p.
CompletionEventOf(p) ==
    [event_type |-> "UpdateOperationComplete",
     resource_type |-> RuntimeConfig.parent_type,
     resource_id |-> p,
     index_key |-> Some(IndexKeyOf[p])]

\* C9: every completion event a pass sends carries the event type, the
\* configured parent type, the id of the pass's parent and the index key the
\* queue handed to the task, which the queue still holds for that parent while
\* the event is in the channel.
C9_CompletionCarriesIndexKey ==
    /\ \A p \in Parents :
          \A i \in 1..Len(Events(p, "send")) :
              Events(p, "send")[i].message = CompletionEventOf(p)
    /\ \A i \in 1..Len(channel) :
          /\ channel[i] = CompletionEventOf(channel[i].resource_id)
          /\ channel[i].index_key = Some(held[channel[i].resource_id])

\* C9 witness: the event of a pass that ended in the not-finalized branch is
\* in the channel, and the event of a pass that failed was received before.
C9_Witness ==
    \E p \in Parents :
        /\ passes[p] = 2
        /\ task[p].pc = "done"
        /\ HandlerReturned(p, FALSE)
        /\ Len(Delays(p, NotFinalizedDelaySecs)) = 1
        /\ channel = <<CompletionEventOf(p)>>

(***************************************************************************)
(* C10                                                                     *)
(***************************************************************************)

\* The pass has fully succeeded: the marker was present, the handler returned
\* finalized = true and the marker-removal patch succeeded, or the marker was
\* absent and the teardown succeeded.
FullSuccess(p) ==
    \/ /\ MarkerInSnapshot(p)
       /\ HandlerReturned(p, TRUE)
       /\ Len(Patches(p, "remove_finalizer")) = 1
       /\ Patches(p, "remove_finalizer")[1].ok
    \/ /\ Started(p)
       /\ ~MarkerInSnapshot(p)
       /\ TeardownSucceeded(p)

\* C10: a pass that has fully succeeded awaits no delay, neither the 3 s nor
\* the 5 s one: when it has ended, the completion event directly follows its
\* last call.
C10_SuccessCompletesAtOnce ==
    \A p \in Parents :
        FullSuccess(p) =>
            /\ Events(p, "delay_for") = <<>>
            /\ task[p].pc = "done" =>
                  /\ Len(Events(p, "send")) = 1
                  /\ log[p][Len(log[p])].op = "send"

\* C10 witness: a finished pass that removed the marker, without a delay.
C10_Witness ==
    \E p \in Parents :
        /\ task[p].pc = "done"
        /\ MarkerInSnapshot(p)
        /\ FullSuccess(p)
        /\ Events(p, "delay_for") = <<>>

\* C10 second witness: a finished pass without the marker, without a delay.
C10_WitnessMarkerAbsent ==
    \E p \in Parents :
        /\ task[p].pc = "done"
        /\ ~MarkerInSnapshot(p)
        /\ FullSuccess(p)
        /\ Len(Events(p, "delete_resource")) = 1
        /\ Events(p, "delay_for") = <<>>

(***************************************************************************)
(* C11                                                                     *)
(***************************************************************************)

\* The first child of the snapshot, in iteration order, that has no deletion
\* timestamp and a type the registry lacks; 0 when there is none.
FirstUnregistered(p) ==
    IF \E i \in 1..Len(task[p].request.children) :
          /\ ~task[p].request.children[i].deletion_timestamp
          /\ task[p].request.children[i].type \notin RuntimeConfig.types
    THEN CHOOSE i \in 1..Len(task[p].request.children) :
          /\ ~task[p].request.children[i].deletion_timestamp
          /\ task[p].request.children[i].type \notin RuntimeConfig.types
          /\ \A j \in 1..(i - 1) :
                \/ task[p].request.children[j].deletion_timestamp
                \/ task[p].request.children[j].type \in RuntimeConfig.types
    ELSE 0

\* C11: a failed registry lookup is the last thing a pass does: the task has
\* died at that child, with no result for the orchestrator to match on; no
\* delete request was issued for that child or a later one, no handler was
\* invoked, no patch was sent, no delay was awaited, no completion event was
\* sent, and the task takes no further step.  No delete request is ever issued
\* for a child of an unregistered type, and a pass that gets past such a
\* child's place in the iteration order has failed on an earlier delete.
C11_MissingTypeAbortsTask ==
    \A p \in Parents :
        /\ \A i \in 1..Len(log[p]) :
              (log[p][i].op = "type_for" /\ ~log[p][i].found) =>
                  /\ i = Len(log[p])
                  /\ AbortedOnMissingType(p)
                  /\ CurrentChild(p).id = log[p][i].child
                  /\ task[p].child = FirstUnregistered(p)
                  /\ \A j \in 1..Len(log[p]) :
                        log[p][j].op = "delete_resource" =>
                            log[p][j].child < log[p][i].child
                  /\ Events(p, "finalize") = <<>>
                  /\ Events(p, "patch_resource") = <<>>
                  /\ Events(p, "delay_for") = <<>>
                  /\ Events(p, "send") = <<>>
                  /\ ~ENABLED TaskStep(p)
        /\ \A i \in 1..Len(log[p]) :
              log[p][i].op = "delete_resource" =>
                  ChildById(p, log[p][i].child).type \in RuntimeConfig.types
        /\ (Started(p) /\ FirstUnregistered(p) > 0
             /\ task[p].pc \notin {"start", "delete_children", "panicked"}) =>
              ~TeardownSucceeded(p)

\* C11 witness: of three children the first was deleted, the second has an
\* unregistered type and the task died there; the third was never looked at.
C11_Witness ==
    \E p \in Parents :
        /\ Len(task[p].request.children) = 3
        /\ MarkerInSnapshot(p)
        /\ FirstUnregistered(p) = 2
        /\ ~task[p].request.children[3].deletion_timestamp
        /\ task[p].pc = "panicked"
        /\ DeleteIds(log[p]) = <<1>>
        /\ Events(p, "send") = <<>>
        /\ held[p] = IndexKeyOf[p]

(***************************************************************************)
(* C12                                                                     *)
(***************************************************************************)

\* A pass of parent p is in flight: started and neither ended nor dead.
InFlight(p) == task[p].pc \notin {"idle", "done", "panicked"}

\* A completion event of parent p is in the channel.
EventInChannel(p) == \E i \in 1..Len(channel) : channel[i].resource_id = p

\* C12: with a queue that starts a pass for a parent only when the parent's
\* index key is free, and frees it only on receiving the completion event: a
\* pass in flight holds the key, through both delays; the completion event is
\* in the channel only when the pass has ended, and it is the pass's last act;
\* and a new pass for a parent starts only when no pass of that parent is in
\* flight, so that the calls of two passes for one parent never interleave.
C12_OnePassPerParentInFlight ==
    /\ [](\A p \in Parents :
            /\ InFlight(p) => held[p] = IndexKeyOf[p]
            /\ task[p].pc \in {"delay_error", "delay_not_finalized"} =>
                  /\ held[p] = IndexKeyOf[p]
                  /\ ~EventInChannel(p)
            /\ EventInChannel(p) => task[p].pc = "done"
            /\ Len(Events(p, "send")) >= 1 =>
                  /\ log[p][Len(log[p])].op = "send"
                  /\ Len(Events(p, "send")) = 1
                  /\ ~ENABLED TaskStep(p))
    /\ [][\A p \in Parents :
            passes'[p] /= passes[p] =>
                /\ ~InFlight(p)
                /\ held[p] = NoKey
                /\ ~EventInChannel(p)]_vars

\* C12 witness: the second pass of a parent awaits the error delay, holding
\* the key that the first pass's completion event had released.
C12_Witness ==
    \E p \in Parents :
        /\ passes[p] = 2
        /\ task[p].pc = "delay_error"
        /\ Len(Events(p, "delete_resource")) = 1
        /\ held[p] = IndexKeyOf[p]
        /\ channel = <<>>

(***************************************************************************)
(* C13                                                                     *)
(***************************************************************************)

\* All that belongs to parent p: its stored resources, its task, the calls of
\* its pass and its slot in the queue.
PartOf(p) == <<store[p], task[p], log[p], held[p], passes[p], deletes[p]>>

\* C13: passes for different parents are independent.  No step changes what
\* belongs to two parents; a pass in flight can always take its next step,
\* whatever the other parent's pass is doing (its handler executing, a delay
\* pending); and under every interleaving a pass's teardown is the one its own
\* snapshot determines and its completion event is its own.
C13_ParentsAreIndependent ==
    /\ [][\A p, q \in Parents :
            (p /= q /\ PartOf(p)' /= PartOf(p)) => PartOf(q)' = PartOf(q)]_vars
    /\ [](\A p \in Parents :
            /\ InFlight(p) => ENABLED TaskStep(p)
            /\ TeardownAsSpecified(p)
            /\ \A i \in 1..Len(Events(p, "send")) :
                  Events(p, "send")[i].message = CompletionEventOf(p)
            /\ \A i \in 1..Len(log[p]) :
                  log[p][i].op \in {"update_status_if_different", "patch_resource"}
                      => log[p][i].parent_id = p)

\* C13 witness: the handler of one parent's pass is executing while the other
\* parent's pass, started with it, has gone through its own handler, status
\* patch and marker removal and has ended.
C13_Witness ==
    /\ task["p1"].pc = "finalize"
    /\ Len(Events("p1", "delete_resource")) = 1
    /\ task["p2"].pc = "done"
    /\ Len(Events("p2", "finalize")) = 1
    /\ Len(Patches("p2", "status")) = 1
    /\ Len(Patches("p2", "remove_finalizer")) = 1

(***************************************************************************)
(* C14                                                                     *)
(***************************************************************************)

\* The index the pass of p resolved, once line 51 has run.
Resolved(p) == task[p].pc \notin {"idle", "start"}

\* C14: get_index_of_parent_finalizer returns the 0-based position of the
\* operator's name in the snapshot's marker list (index 1 for
\* [other-op, my-op]) and nothing when the name does not occur, the list is
\* empty or the parent has no list; resolving changes nothing but the task's
\* own local, and the index stays what the snapshot taken at the start of the
\* pass gave, until the next pass.
C14_IndexIsPositionInSnapshot ==
    /\ [](\A p \in Parents : Resolved(p) =>
            LET fl == task[p].request.parent.finalizers
                idx == task[p].parent_finalizer_index
            IN  /\ (fl = None \/ fl = Some(<<>>)) => idx = None
                /\ fl = Some(<<OtherOperator>>) => idx = None
                /\ fl = Some(<<OtherOperator, RuntimeConfig.operator_name>>)
                      => idx = Some(1)
                /\ ~MarkerInSnapshot(p) => idx = None
                /\ MarkerInSnapshot(p) =>
                      \E k \in 1..Len(Unwrap(fl)) :
                          /\ Unwrap(fl)[k] = RuntimeConfig.operator_name
                          /\ \A j \in 1..(k - 1) :
                                Unwrap(fl)[j] /= RuntimeConfig.operator_name
                          /\ idx = Some(k - 1))
    /\ [][\A p \in Parents :
            /\ (task[p].pc = "start" /\ task[p]' /= task[p]) =>
                  /\ task[p]'.request = task[p].request
                  /\ <<store, log, channel, held, passes, deletes>>'
                        = <<store, log, channel, held, passes, deletes>>
            /\ (Resolved(p) /\ Resolved(p)') =>
                  /\ task[p]'.parent_finalizer_index
                        = task[p].parent_finalizer_index
                  /\ task[p]'.request = task[p].request]_vars

\* C14 witness: a pass whose snapshot listed [other-op, my-op] resolved index
\* 1 and has ended after removing the marker, so that the stored list no
\* longer holds the name the index was resolved from.
C14_Witness ==
    /\ task["p1"].pc = "done"
    /\ task["p1"].request.parent.finalizers
          = Some(<<OtherOperator, RuntimeConfig.operator_name>>)
    /\ task["p1"].parent_finalizer_index = Some(1)
    /\ store["p1"].finalizers = Some(<<OtherOperator>>)

\* A pass whose snapshot has no marker list resolved nothing.
C14_WitnessNoList ==
    /\ task["p1"].pc = "done"
    /\ task["p1"].request.parent.finalizers = None
    /\ task["p1"].parent_finalizer_index = None

(***************************************************************************)
(* C15                                                                     *)
(***************************************************************************)

\* The calls of the pass after its i-th.
After(p, i) == SubSeq(log[p], i + 1, Len(log[p]))

\* What an error leaves a pass to do: the 5 s delay, then the completion event.
ErrorEnding(p) ==
    <<[op |-> "delay_for", secs |-> ErrorDelaySecs],
      [op |-> "send", message |-> CompletionEventOf(p)]>>

\* C15: when the status reconciliation fails (a stale resource version or any
\* other error), the pass sends no marker-removal patch and takes no 3 s
\* delay, whatever the handler answered; the error is caught, the stored
\* status and marker list stay as they were, and all that follows the failed
\* patch is the 5 s delay and then the completion event.
C15_StatusFailureAbortsPass ==
    \A p \in Parents : \A i \in 1..Len(log[p]) :
        (log[p][i].op = "patch_resource" /\ log[p][i].kind = "status"
            /\ ~log[p][i].ok) =>
            /\ IsPrefix(After(p, i), ErrorEnding(p))
            /\ task[p].pc = "done" => After(p, i) = ErrorEnding(p)
            /\ Len(Patches(p, "remove_finalizer")) = 0
            /\ Len(Delays(p, NotFinalizedDelaySecs)) = 0
            /\ task[p].result = "Err"
            /\ store[p].status = task[p].request.parent.status
            /\ store[p].finalizers = task[p].request.parent.finalizers

\* C15 witness: the handler answered finalized = true with a new status, the
\* stored parent had moved on from the snapshot's resource version, the status
\* patch failed, and the pass has ended with the 5 s delay and the event.
C15_Witness ==
    /\ task["p1"].pc = "done"
    /\ HandlerReturned("p1", TRUE)
    /\ StatusFailed("p1")
    /\ store["p1"].resource_version
          /= task["p1"].request.parent.resource_version
    /\ Len(Delays("p1", ErrorDelaySecs)) = 1
    /\ CompletionSent("p1")

(***************************************************************************)
(* C16                                                                     *)
(***************************************************************************)

\* C16: the status reconciliation is called with the parent id, the resource
\* version, the generation and the prior status of the snapshot the pass began
\* with, and with the status the handler returned; the handler is given that
\* snapshot and hands it back unchanged; the snapshot is taken when the pass
\* starts and is never replaced during the pass, whatever other writers do to
\* the stored parent meanwhile.
C16_StatusCallUsesSnapshot ==
    /\ [](\A p \in Parents : \A i \in 1..Len(log[p]) :
            /\ log[p][i].op = "update_status_if_different" =>
                  /\ log[p][i].parent_id = task[p].request.parent.id
                  /\ log[p][i].resource_version
                        = task[p].request.parent.resource_version
                  /\ log[p][i].generation = task[p].request.parent.generation
                  /\ log[p][i].old_status = task[p].request.parent.status
                  /\ log[p][i].new_status = task[p].response.status
                  /\ log[p][i - 1].op = "finalize"
                  /\ log[p][i - 1].status = log[p][i].new_status
            /\ log[p][i].op = "finalize" =>
                  log[p][i].request = task[p].request)
    /\ [][\A p \in Parents :
            task[p]'.request /= task[p].request =>
                /\ task[p]'.pc = "start"
                /\ task[p]'.request = Snapshot(p)]_vars

\* C16 witness: another writer moved the stored parent's generation and
\* resource version on after the snapshot was taken, and the status call of
\* the pass was made with the snapshot's older values.
C16_Witness ==
    /\ Len(Events("p1", "update_status_if_different")) = 1
    /\ Events("p1", "update_status_if_different")[1].generation
          < store["p1"].generation
    /\ Events("p1", "update_status_if_different")[1].resource_version
          < store["p1"].resource_version
    /\ Len(Patches("p1", "status")) = 1
    /\ ~Patches("p1", "status")[1].ok

(***************************************************************************)
(* C17                                                                     *)
(***************************************************************************)

\* The delete requests the pass of p has made for one child.
DeletesOf(p, id) ==
    SelectSeq(log[p], LAMBDA e : e.op = "delete_resource" /\ e.child = id)

\* A call of the pass that returned an error.
FailedCall(e) ==
    /\ e.op \in {"delete_resource", "patch_resource"}
    /\ ~e.ok

\* C17: nothing is retried within one pass.  Each child receives at most one
\* delete request, the handler is invoked at most once, the status
\* reconciliation is called and patches at most once, the marker-removal patch
\* is sent at most once, and a call that failed is the last call the pass
\* makes to the cluster or the handler: only the delay and the completion
\* event follow it.
C17_NoRetryWithinPass ==
    \A p \in Parents :
        /\ \A id \in 1..Len(store[p].children) : Len(DeletesOf(p, id)) <= 1
        /\ Len(Events(p, "finalize")) <= 1
        /\ Len(Events(p, "update_status_if_different")) <= 1
        /\ Len(Patches(p, "status")) <= 1
        /\ Len(Patches(p, "remove_finalizer")) <= 1
        /\ Len(Events(p, "send")) <= 1
        /\ \A i \in 1..Len(log[p]) : FailedCall(log[p][i]) =>
              \A j \in (i + 1)..Len(log[p]) :
                  log[p][j].op \in {"delay_for", "send"}

\* C17 witness: a pass deleted two children, invoked the handler, patched the
\* status, failed to remove the marker and ended, having made each call once.
C17_Witness ==
    /\ task["p1"].pc = "done"
    /\ Len(Events("p1", "delete_resource")) = 2
    /\ Len(Events("p1", "finalize")) = 1
    /\ Len(Patches("p1", "status")) = 1
    /\ Len(Patches("p1", "remove_finalizer")) = 1
    /\ ~Patches("p1", "remove_finalizer")[1].ok

\* A pass whose one delete request failed has ended without another.
C17_WitnessDeleteFailed ==
    /\ task["p1"].pc = "done"
    /\ Len(Events("p1", "delete_resource")) = 1
    /\ ~Events("p1", "delete_resource")[1].ok
    /\ Len(Events("p1", "finalize")) = 0

(***************************************************************************)
(* C18                                                                     *)
(***************************************************************************)

\* The children of p, by the id they keep across passes.
ChildIds(p) == 1..Len(store[p].children)

\* The pass in flight has had a delete request for the child accepted.
DeletedInThisPass(p, id) ==
    \E i \in 1..Len(log[p]) :
        /\ log[p][i].op = "delete_resource"
        /\ log[p][i].child = id
        /\ log[p][i].ok

\* C18: over all the passes of a parent, each starting from a fresh snapshot,
\* every child has at most one delete request accepted.  A child deleted
\* successfully is gone or carries a deletion timestamp from then on, a later
\* pass scans it again and skips it, and goes on to delete the children that
\* are left, in the order of its snapshot.
C18_OneSuccessfulDeletePerChild ==
    \A p \in Parents :
        /\ TeardownAsSpecified(p)
        /\ \A id \in ChildIds(p) :
              /\ deletes[p][id] <= 1
              /\ deletes[p][id] = 1 =>
                    store[p].children[id].state \in {"gone", "deleting"}
              /\ DeletedInThisPass(p, id) =>
                    /\ deletes[p][id] = 1
                    /\ \E k \in 1..Len(task[p].request.children) :
                          /\ task[p].request.children[k].id = id
                          /\ ~task[p].request.children[k].deletion_timestamp

\* C18 witness: a first pass deleted a child and failed at a later one; the
\* second pass scanned the children again, sent no request for the child
\* deleted before, and deleted a later child.
C18_Witness ==
    /\ passes["p1"] = 2
    /\ task["p1"].pc = "done"
    /\ \E a, b \in ChildIds("p1") :
          /\ a < b
          /\ deletes["p1"][a] = 1
          /\ Len(DeletesOf("p1", a)) = 0
          /\ DeletedInThisPass("p1", b)

(***************************************************************************)
(* C19                                                                     *)
(***************************************************************************)

\* The operator's marker is on the stored parent.
MarkerOnParent(p) ==
    /\ IsSome(store[p].finalizers)
    /\ \E k \in 1..Len(Unwrap(store[p].finalizers)) :
          Unwrap(store[p].finalizers)[k] = RuntimeConfig.operator_name

\* C19: when the marker-removal patch fails, the error is caught by
\* handle_finalize: all that follows the failed patch is the 5 s delay and
\* then the completion event.  The stored marker list is as the snapshot had
\* it, with the operator's marker on it, and the stored status is the one a
\* successful status patch of the same pass wrote (or the snapshot's, when
\* the status did not differ).
C19_RemovalFailureIsRecoverable ==
    \A p \in Parents : \A i \in 1..Len(log[p]) :
        (log[p][i].op = "patch_resource" /\ log[p][i].kind = "remove_finalizer"
            /\ ~log[p][i].ok) =>
            /\ IsPrefix(After(p, i), ErrorEnding(p))
            /\ task[p].pc = "done" => After(p, i) = ErrorEnding(p)
            /\ task[p].result = "Err"
            /\ Len(Delays(p, NotFinalizedDelaySecs)) = 0
            /\ store[p].finalizers = task[p].request.parent.finalizers
            /\ MarkerOnParent(p)
            /\ store[p].status = task[p].response.status
            /\ Len(Patches(p, "status")) = 1 =>
                  /\ Patches(p, "status")[1].ok
                  /\ store[p].status = Patches(p, "status")[1].status
                  /\ store[p].status /= task[p].request.parent.status
            /\ Len(Patches(p, "status")) = 0 =>
                  store[p].status = task[p].request.parent.status

\* C19 witness: a pass patched the status, failed to remove the marker,
\* awaited the 5 s delay and sent the completion event; the new status is
\* stored and the marker is still on the parent.
C19_Witness ==
    /\ task["p1"].pc = "done"
    /\ Len(Patches("p1", "status")) = 1
    /\ Patches("p1", "status")[1].ok
    /\ Len(Patches("p1", "remove_finalizer")) = 1
    /\ ~Patches("p1", "remove_finalizer")[1].ok
    /\ store["p1"].status /= task["p1"].request.parent.status
    /\ MarkerOnParent("p1")
    /\ Len(Delays("p1", ErrorDelaySecs)) = 1
    /\ CompletionSent("p1")

(***************************************************************************)
(* C20                                                                     *)
(***************************************************************************)

\* The parent is marked for deletion and carries the operator's marker.
AwaitsFinalization(p) == store[p].deletion_timestamp /\ MarkerOnParent(p)

\* Every child of p still without a deletion timestamp has a type the
\* registry holds.
LiveChildrenRegistered(p) ==
    \A id \in ChildIds(p) :
        store[p].children[id].state = "live" =>
            IsSome(type_for(RuntimeConfig, store[p].children[id].type))

\* C20 as stated: when the queue requeues after every completion event and
\* the calls eventually all succeed with finalized = true, a parent carrying
\* the marker eventually has it removed.
C20_AlwaysConverges ==
    \A p \in Parents : AwaitsFinalization(p) ~> ~MarkerOnParent(p)

\* C20, amended: under the same premise, a parent carrying the marker, all of
\* whose children without a deletion timestamp have a registered type,
\* eventually has the marker removed, whatever failed or deferred passes came
\* before; a parent with a child without a deletion timestamp and of an
\* unregistered type eventually has its pass abort at that child, after which
\* no completion event is sent, its key stays held and the marker stays.
C20_ConvergesUnlessAborted ==
    /\ \A p \in Parents :
          (AwaitsFinalization(p) /\ LiveChildrenRegistered(p))
              ~> ~MarkerOnParent(p)
    /\ \A p \in Parents :
          (AwaitsFinalization(p) /\ ~LiveChildrenRegistered(p))
              ~> [](AbortedOnMissingType(p) /\ MarkerOnParent(p)
                       /\ held[p] /= NoKey)

\* C20 witness: a first pass deleted a child and failed at a later one, the
\* parent was requeued, and the second pass deleted the rest, ran the handler
\* and removed the marker.
C20_Witness ==
    /\ passes["p1"] = 2
    /\ ~MarkerOnParent("p1")
    /\ MarkerInSnapshot("p1")
    /\ Len(Patches("p1", "remove_finalizer")) = 1
    /\ Patches("p1", "remove_finalizer")[1].ok
    /\ \E a, b \in ChildIds("p1") :
          /\ deletes["p1"][a] = 1
          /\ Len(DeletesOf("p1", a)) = 0
          /\ DeletedInThisPass("p1", b)

====
